---- MODULE Spec2Model ----
(***************************************************************************)
(* Node-type metadata helpers (nodeTypesUtils.ts) and the project badge's   *)
(* projectState classification (ProjectCardBadge component).                *)
(*                                                                          *)
(* Representation.                                                          *)
(*  - A node property (INodeProperties) is a record; its identity (what     *)
(*    Array.prototype.includes compares) is its index in                    *)
(*    nodeType.properties, so lists of properties are lists of indices and  *)
(*    0 stands for null.                                                    *)
(*  - displayOptions.show is a sequence of [key, values] entries in key     *)
(*    insertion order (the order Object.keys and for..in enumerate).        *)
(*  - An option name is the sequence of its space-separated words.          *)
(*  - nodeVersion 0 stands for both undefined and 0: the code only tests    *)
(*    its truthiness before comparing it.                                   *)
(*  - A package name is the sequence of its characters.                     *)
(***************************************************************************)
EXTENDS Integers, Sequences, FiniteSets, Bags, TLC

VARIABLES
    nodeType,        \* the INodeTypeDescription | null the helpers are called on
    credStore,       \* credentials store: names of credential types with __overwrittenProperties
    op,              \* the helper called last ("none" before the first call)
    nodeVersion,     \* nodeVersion argument of the last call
    credential,      \* credential argument of the last isRequiredCredential call
    ret,             \* value returned by the last call
    lastIndex,       \* COMMUNITY_PACKAGE_NAME_REGEX.lastIndex (module-global regex state)
    packageName,     \* index in PackageNames of the name tested last (0: none yet)
    nameMatch,       \* result of the last isCommunityPackageName call
    entryLastIndex,  \* lastIndex as the last isCommunityPackageName call found it
    firstResult,     \* per package name: the result of the first call on it
    props,           \* the badge component's props (resource, personalProject)
    badge            \* the value of the projectState computed for props

vars == <<nodeType, credStore, op, nodeVersion, credential, ret,
          lastIndex, packageName, nameMatch, entryLastIndex, firstResult, props, badge>>
authVars == <<nodeType, credStore, op, nodeVersion, credential, ret>>
regexVars == <<lastIndex, packageName, nameMatch, entryLastIndex, firstResult>>
badgeVars == <<props, badge>>

----------------------------------------------------------------------------
(* Bounds *)
MaxProps == 2        \* nodeType.properties.length
MaxCreds == 2        \* nodeType.credentials.length
MaxVersion == 2      \* node versions 1..MaxVersion
MaxOptions == 3      \* options of the authentication field
MaxShared == 2       \* resource.sharedWithProjects.length

----------------------------------------------------------------------------
(* Generic sequence helpers *)

RECURSIVE SeqsUpTo(_, _)
SeqsUpTo(S, n) ==
    IF n = 0 THEN {<<>>}
    ELSE LET shorter == SeqsUpTo(S, n - 1)
         IN shorter \cup {Append(s, x) : s \in {t \in shorter : Len(t) = n - 1}, x \in S}

Range(s) == {s[i] : i \in DOMAIN s}

\* Array.prototype.includes
includes(arr, x) == \E i \in DOMAIN arr : arr[i] = x

\* index of the first element satisfying a test among the given indices, 0 if none
FirstIn(S) == IF S = {} THEN 0 ELSE CHOOSE i \in S : \A j \in S : i <= j

RECURSIVE SeqToBag(_)
SeqToBag(s) ==
    IF s = <<>> THEN EmptyBag ELSE SeqToBag(Tail(s)) (+) SetToBag({Head(s)})

----------------------------------------------------------------------------
(* Constants of the front end *)

MAIN_AUTH_FIELD_NAME == "authentication"
\* locale.baseText('credentialEdit.credentialConfig.recommendedAuthTypeSuffix')
recommendedSuffix == "(recommended)"

----------------------------------------------------------------------------
(* Lookups in displayOptions.show *)

showKeys(show) == [i \in DOMAIN show |-> show[i].key]
hasKey(show, k) == \E i \in DOMAIN show : show[i].key = k
\* show[k] for a key that is present
showValues(show, k) == show[CHOOSE i \in DOMAIN show : show[i].key = k].values

----------------------------------------------------------------------------
(* nodeTypesUtils.ts: authentication fields *)

isNodeFieldMatchingNodeVersion(nodeField, nv) ==
    IF nv # 0 /\ nodeField.hasShow /\ hasKey(nodeField.show, "@version")
    THEN includes(showValues(nodeField.show, "@version"), nv)
    ELSE TRUE

\* pushNodeFields without the !authFields.includes(nodeField) test
RECURSIVE pushNodeFields_noDedup(_, _, _, _, _)
pushNodeFields_noDedup(nt, nv, option, authFields, k) ==
    IF k > Len(nt.properties) THEN authFields
    ELSE LET nodeField == nt.properties[k]
             pushed == IF /\ nodeField.name = option
                          /\ isNodeFieldMatchingNodeVersion(nodeField, nv)
                       THEN Append(authFields, k)
                       ELSE authFields
         IN pushNodeFields_noDedup(nt, nv, option, pushed, k + 1)

\* nodeFieldsForName.forEach: k walks nodeType.properties, keeping those named `option`
RECURSIVE pushNodeFields(_, _, _, _, _)
pushNodeFields(nt, nv, option, authFields, k) ==
    IF k > Len(nt.properties) THEN authFields
    ELSE LET nodeField == nt.properties[k]
             pushed == IF /\ nodeField.name = option
                          /\ ~includes(authFields, k)
                          /\ isNodeFieldMatchingNodeVersion(nodeField, nv)
                       THEN Append(authFields, k)
                       ELSE authFields
         IN pushNodeFields(nt, nv, option, pushed, k + 1)

\* Object.keys(cred.displayOptions.show).forEach
RECURSIVE pushForKeys(_, _, _, _, _)
pushForKeys(nt, nv, keys, authFields, j) ==
    IF j > Len(keys) THEN authFields
    ELSE pushForKeys(nt, nv, keys, pushNodeFields(nt, nv, keys[j], authFields, 1), j + 1)

\* nodeType.credentials.forEach
RECURSIVE pushForCreds(_, _, _, _)
pushForCreds(nt, nv, authFields, c) ==
    IF c > Len(nt.credentials) THEN authFields
    ELSE LET cred == nt.credentials[c]
             pushed == IF cred.hasShow
                       THEN pushForKeys(nt, nv, showKeys(cred.show), authFields, 1)
                       ELSE authFields
         IN pushForCreds(nt, nv, pushed, c + 1)

getNodeAuthFields(nt, nv) ==
    IF ~nt.null /\ nt.hasCredentials /\ Len(nt.credentials) > 0
    THEN pushForCreds(nt, nv, <<>>, 1)
    ELSE <<>>

\* The forEach callback's return values are discarded and the find callback
\* returns nothing, so every path returns true.
isNodeParameterRequired(nt, parameter) ==
    IF ~parameter.hasShow THEN TRUE ELSE TRUE

\* dependentAuthFieldValues[fieldName], as the set of its members
dependentAuthFieldValues(nt, fieldName) ==
    UNION {Range(showValues(nt.credentials[c].show, fieldName)) :
             c \in {d \in DOMAIN nt.credentials :
                      /\ nt.credentials[d].hasShow
                      /\ hasKey(nt.credentials[d].show, fieldName)}}

findAlternativeAuthField(nt, fields) ==
    LET required(field) ==
            \/ ~field.hasOptions
            \/ \A o \in DOMAIN field.options :
                  ~(/\ field.options[o].kind = "string"
                    /\ field.options[o].value \notin dependentAuthFieldValues(nt, field.name))
    IN LET f == FirstIn({i \in DOMAIN fields : required(nt.properties[fields[i]])})
       IN IF f = 0 THEN 0 ELSE fields[f]

\* the field named MAIN_AUTH_FIELD_NAME that offers no 'none' option (0: none)
authenticationField(nt, credentialDependencies) ==
    LET isAuth(prop) ==
            /\ prop.name = MAIN_AUTH_FIELD_NAME
            /\ ~(/\ prop.hasOptions
                 /\ \E o \in DOMAIN prop.options :
                       /\ prop.options[o].kind = "string"
                       /\ prop.options[o].value = "none")
        f == FirstIn({i \in DOMAIN credentialDependencies :
                        isAuth(nt.properties[credentialDependencies[i]])})
    IN IF f = 0 THEN 0 ELSE credentialDependencies[f]

\* getMainAuthField trying the alternative field before the authentication field
getMainAuthField_alternativeFirst(nt) ==
    IF nt.null THEN 0
    ELSE LET credentialDependencies == getNodeAuthFields(nt, 0)
             alternative == findAlternativeAuthField(nt, credentialDependencies)
         IN IF alternative # 0 THEN alternative
            ELSE authenticationField(nt, credentialDependencies)

getMainAuthField(nt) ==
    IF nt.null THEN 0
    ELSE LET credentialDependencies == getNodeAuthFields(nt, 0)
             authField == authenticationField(nt, credentialDependencies)
             mainAuthFiled == IF authField # 0 THEN authField
                              ELSE findAlternativeAuthField(nt, credentialDependencies)
             isFieldRequired == IF mainAuthFiled # 0
                                THEN isNodeParameterRequired(nt, nt.properties[mainAuthFiled])
                                ELSE FALSE
         IN IF mainAuthFiled # 0 /\ isFieldRequired THEN mainAuthFiled ELSE 0

isRequiredCredential(nt, cred) ==
    IF ~cred.hasShow THEN TRUE
    ELSE LET mainAuthField == getMainAuthField(nt)
         IN IF mainAuthField # 0
            THEN hasKey(cred.show, nt.properties[mainAuthField].name)
            ELSE FALSE

----------------------------------------------------------------------------
(* nodeTypesUtils.ts: authentication options *)

getNodeCredentialForSelectedAuthType(nt, authType) ==
    LET authField == getMainAuthField(nt)
        authFieldName == IF authField # 0 THEN nt.properties[authField].name ELSE ""
        c == FirstIn({d \in DOMAIN nt.credentials :
                        /\ nt.credentials[d].hasShow
                        /\ hasKey(nt.credentials[d].show, authFieldName)
                        /\ includes(showValues(nt.credentials[d].show, authFieldName), authType)})
    IN c

\* String.prototype.endsWith / includes on an option name, word by word
endsWithSuffix(name) == Len(name) > 0 /\ name[Len(name)] = recommendedSuffix
includesSuffix(name) == includes(name, recommendedSuffix)

\* field.options.map callback
authOption(nt, store, field, option) ==
    LET optionValue == IF option.kind # "absent" THEN option.value ELSE ""
        cred == getNodeCredentialForSelectedAuthType(nt, optionValue)
        hasOverrides == cred # 0 /\ nt.credentials[cred].name \in store
    IN [name |-> IF hasOverrides /\ ~endsWithSuffix(option.name)
                 THEN Append(option.name, recommendedSuffix)
                 ELSE option.name,
        value |-> optionValue,
        displayOptions |-> [hasShow |-> field.hasShow, show |-> field.show]]

\* authProps.forEach: a walks the auth fields in order, concatenating their mapped options
RECURSIVE concatOptions(_, _, _, _, _)
concatOptions(nt, store, authProps, options, a) ==
    IF a > Len(authProps) THEN options
    ELSE LET field == nt.properties[authProps[a]]
             mapped == [o \in DOMAIN field.options |->
                          authOption(nt, store, field, field.options[o])]
         IN concatOptions(nt, store, authProps,
                          IF field.hasOptions THEN options \o mapped ELSE options, a + 1)

\* the options list before it is reordered
collectAuthOptions(nt, nv, store) ==
    LET authProp == getMainAuthField(nt)
        fields == getNodeAuthFields(nt, nv)
        authProps == SelectSeq(fields,
                        LAMBDA f : authProp # 0 /\
                                   nt.properties[f].name = nt.properties[authProp].name)
    IN concatOptions(nt, store, authProps, <<>>, 1)

\* moveToFront without the splice: the item is copied to the front
moveToFront_noSplice(options, i) == <<options[i]>> \o options

\* options.splice(i, 1); options.unshift(item)  (i counted from 1)
moveToFront(options, i) ==
    <<options[i]>> \o SubSeq(options, 1, i - 1) \o SubSeq(options, i + 1, Len(options))

\* options.forEach((item, i) => ...): visits the indices below the length the
\* array had when forEach was called, reading the array as it is when each
\* index is reached
RECURSIVE forEachOption(_, _, _)
forEachOption(options, i, len) ==
    IF i > len THEN options
    ELSE forEachOption(IF includesSuffix(options[i].name)
                       THEN moveToFront(options, i)
                       ELSE options,
                       i + 1, len)

sortRecommendedFirst(options) == forEachOption(options, 1, Len(options))

getNodeAuthOptions(nt, nv, store) ==
    IF nt.null THEN <<>>
    ELSE sortRecommendedFirst(collectAuthOptions(nt, nv, store))

----------------------------------------------------------------------------
(* nodeTypesUtils.ts: community package names                               *)
(* COMMUNITY_PACKAGE_NAME_REGEX = /^(?!@n8n\/)(@\w+\/)?n8n-nodes-(?!base\b)\b\w+/g *)

\* the members of \w that occur in the names tested
WordChars == {"a", "b", "d", "e", "n", "o", "s", "u", "x", "8", "_"}
isWordChar(str, p) == p >= 1 /\ p <= Len(str) /\ str[p] \in WordChars

\* the literal lit occurs in str from position p (counted from 1)
litAt(str, p, lit) ==
    /\ p + Len(lit) - 1 <= Len(str)
    /\ \A i \in 1..Len(lit) : str[p + i - 1] = lit[i]

\* \b between positions p - 1 and p
wordBoundary(str, p) == isWordChar(str, p - 1) # isWordChar(str, p)

\* the position after the longest run of word characters starting at p
RECURSIVE wordRunEnd(_, _)
wordRunEnd(str, p) == IF isWordChar(str, p) THEN wordRunEnd(str, p + 1) ELSE p

\* n8n-nodes-(?!base\b)\b\w+ matched from position p: the position after the
\* match, 0 when there is none
matchNodesPart(str, p) ==
    LET q == p + 10
    IN IF /\ litAt(str, p, <<"n", "8", "n", "-", "n", "o", "d", "e", "s", "-">>)
          /\ ~(litAt(str, q, <<"b", "a", "s", "e">>) /\ wordBoundary(str, q + 4))
          /\ wordBoundary(str, q)
          /\ isWordChar(str, q)
       THEN wordRunEnd(str, q)
       ELSE 0

\* the whole pattern matched at the start of str: ^(?!@n8n\/)(@\w+\/)? then the
\* rest, first with the optional scope taken and, failing that, without it
matchAtStart(str) ==
    IF litAt(str, 1, <<"@", "n", "8", "n", "/">>) THEN 0
    ELSE LET scopeEnd == wordRunEnd(str, 2)
             withScope == IF /\ litAt(str, 1, <<"@">>)
                             /\ scopeEnd > 2
                             /\ litAt(str, scopeEnd, <<"/">>)
                          THEN matchNodesPart(str, scopeEnd + 1)
                          ELSE 0
         IN IF withScope # 0 THEN withScope ELSE matchNodesPart(str, 1)

\* RegExp.prototype.exec of the global (/g) regex on str with the regex's
\* lastIndex at li (counted from 0): the search starts at li, and ^ matches at
\* index 0 only.  A match leaves lastIndex after the match, a failure at 0.
regexExec(str, li) ==
    IF li = 0 /\ matchAtStart(str) # 0
    THEN [matched |-> TRUE, lastIndex |-> matchAtStart(str) - 1]
    ELSE [matched |-> FALSE, lastIndex |-> 0]

\* isCommunityPackageName without the lastIndex reset
isCommunityPackageName_noReset(name, li) ==
    LET exec == regexExec(name, li)
    IN [nameMatch |-> exec.matched, lastIndex |-> exec.lastIndex]

\* li is the lastIndex an earlier call left behind
isCommunityPackageName(name, li) ==
    LET reset == 0
        exec == regexExec(name, reset)
    IN [nameMatch |-> exec.matched, lastIndex |-> exec.lastIndex]

----------------------------------------------------------------------------
(* Project badge: projectState *)

\* truthiness of 'sharedWithProjects' in resource && resource.sharedWithProjects?.length
isShared(resource) ==
    /\ resource.hasSharedWithProjects
    /\ resource.sharedWithProjectsDefined
    /\ Len(resource.sharedWithProjects) # 0

\* projectState comparing no ids: any resource counts as owned once the user
\* has a personal project
projectState_noIdCheck(resource, personalProject) ==
    IF \/ /\ resource.hasHomeProject
          /\ ~personalProject.null
       \/ ~resource.hasHomeProject
    THEN IF isShared(resource) THEN "shared-owned" ELSE "owned"
    ELSE IF resource.homeProject.type # "team"
    THEN IF isShared(resource) THEN "shared-personal" ELSE "personal"
    ELSE IF resource.homeProject.type = "team"
    THEN IF isShared(resource) THEN "shared-team" ELSE "team"
    ELSE "unknown"

projectState(resource, personalProject) ==
    IF \/ /\ resource.hasHomeProject
          /\ ~personalProject.null
          /\ resource.homeProject.id = personalProject.id
       \/ ~resource.hasHomeProject
    THEN IF isShared(resource) THEN "shared-owned" ELSE "owned"
    ELSE IF resource.homeProject.type # "team"
    THEN IF isShared(resource) THEN "shared-personal" ELSE "personal"
    ELSE IF resource.homeProject.type = "team"
    THEN IF isShared(resource) THEN "shared-team" ELSE "team"
    ELSE "unknown"

----------------------------------------------------------------------------
(* Inputs *)

Opt(n, k, v) == [name |-> n, kind |-> k, value |-> v]
optOAuth2 == Opt(<<"OAuth2">>, "string", "oAuth2")
optApiKey == Opt(<<"API", "Key">>, "string", "apiKey")
optNone == Opt(<<"None">>, "string", "none")
optCollection == Opt(<<"Extra">>, "absent", "")
optToken == Opt(<<"Token", recommendedSuffix>>, "string", "token")
optBasic == Opt(<<recommendedSuffix, "Basic">>, "string", "basic")

Entry(k, v) == [key |-> k, values |-> v]
Prop(n, ho, o, hs, s) ==
    [name |-> n, hasOptions |-> ho, options |-> o, hasShow |-> hs, show |-> s]
Cred(n, hs, s) == [name |-> n, hasShow |-> hs, show |-> s]

PropPool ==
    { Prop(MAIN_AUTH_FIELD_NAME, TRUE, <<optOAuth2, optApiKey>>, FALSE, <<>>),
      Prop(MAIN_AUTH_FIELD_NAME, TRUE, <<optNone, optApiKey>>, FALSE, <<>>),
      Prop(MAIN_AUTH_FIELD_NAME, FALSE, <<>>, TRUE,
           <<Entry("resource", <<"x">>), Entry("@version", <<MaxVersion>>)>>),
      Prop("resource", TRUE, <<optApiKey>>, FALSE, <<>>),
      Prop("resource", TRUE, <<optOAuth2, optCollection>>, TRUE, <<Entry("@version", <<1>>)>>),
      Prop("resource", FALSE, <<>>, FALSE, <<>>) }

CredPool ==
    { Cred("httpBasicAuth", FALSE, <<>>),
      Cred("noDependency", TRUE, <<>>),
      Cred("oAuth2Api", TRUE, <<Entry(MAIN_AUTH_FIELD_NAME, <<"oAuth2">>)>>),
      Cred("apiKeyApi", TRUE, <<Entry("resource", <<"apiKey">>)>>),
      Cred("tokenApi", TRUE, <<Entry(MAIN_AUTH_FIELD_NAME, <<"apiKey">>),
                               Entry("resource", <<"apiKey">>)>>) }

NullNodeType ==
    [null |-> TRUE, properties |-> <<>>, hasCredentials |-> FALSE, credentials |-> <<>>]
NodeType(p, hc, c) ==
    [null |-> FALSE, properties |-> p, hasCredentials |-> hc, credentials |-> c]

\* node types for the authentication-field helpers
NodeTypes ==
    {NullNodeType}
    \cup {NodeType(p, TRUE, c) : p \in SeqsUpTo(PropPool, MaxProps),
                                 c \in SeqsUpTo(CredPool, MaxCreds)}
    \cup {NodeType(p, FALSE, <<>>) : p \in SeqsUpTo(PropPool, MaxProps)}

\* node types with one authentication field (and optionally a second one for
\* the newest node version) whose options are any list of up to MaxOptions options
OptionPool == {optOAuth2, optApiKey, optToken, optBasic}
OptionCreds ==
    << Cred("oAuth2Api", TRUE, <<Entry(MAIN_AUTH_FIELD_NAME, <<"oAuth2">>)>>),
       Cred("apiKeyApi", TRUE, <<Entry(MAIN_AUTH_FIELD_NAME, <<"apiKey", "basic">>)>>) >>
OptionNodeTypes ==
    LET main(o) == Prop(MAIN_AUTH_FIELD_NAME, TRUE, o, FALSE, <<>>)
        newer == Prop(MAIN_AUTH_FIELD_NAME, TRUE, <<optApiKey>>, TRUE,
                      <<Entry("@version", <<MaxVersion>>)>>)
    IN {NodeType(<<main(o)>>, TRUE, OptionCreds) : o \in SeqsUpTo(OptionPool, MaxOptions)}
       \cup {NodeType(<<main(o), newer>>, TRUE, OptionCreds) :
               o \in SeqsUpTo(OptionPool, MaxOptions)}

NoCredential == Cred("", FALSE, <<>>)

\* package names, as character sequences
nodesPrefix == <<"n", "8", "n", "-", "n", "o", "d", "e", "s", "-">>
PackageNames ==
    << nodesPrefix \o <<"a", "b">>,                                  \* n8n-nodes-ab
       <<"@", "u", "/">> \o nodesPrefix \o <<"a", "b">>,             \* @u/n8n-nodes-ab
       <<"@", "n", "8", "n", "/">> \o nodesPrefix \o <<"a", "b">>,   \* @n8n/n8n-nodes-ab
       nodesPrefix \o <<"b", "a", "s", "e">>,                        \* n8n-nodes-base
       nodesPrefix \o <<"b", "a", "s", "e", "x">>,                   \* n8n-nodes-basex
       nodesPrefix \o <<"b", "a", "s", "e", "-", "x">>,              \* n8n-nodes-base-x
       nodesPrefix,                                                  \* n8n-nodes-
       <<"@", "/">> \o nodesPrefix \o <<"a", "b">>,                  \* @/n8n-nodes-ab
       <<"x">> \o nodesPrefix \o <<"a", "b">> >>                     \* xn8n-nodes-ab

\* badge props
ProjectIds == {"p1", "p2"}
Project(i, t) == [null |-> FALSE, id |-> i, type |-> t]
NullProject == [null |-> TRUE, id |-> "", type |-> ""]
Resource(hh, h, hs, sd, s) ==
    [hasHomeProject |-> hh, homeProject |-> h,
     hasSharedWithProjects |-> hs, sharedWithProjectsDefined |-> sd, sharedWithProjects |-> s]
Sharings ==
    {<<FALSE, FALSE, <<>>>>, <<TRUE, FALSE, <<>>>>}
    \cup {<<TRUE, TRUE, [i \in 1..n |-> "shared"]>> : n \in 0..MaxShared}
HomeProjects ==
    {<<FALSE, NullProject>>}
    \cup {<<TRUE, Project(i, t)>> : i \in ProjectIds \cup {"p3"},
                                   t \in {"personal", "team"}}
BadgeProps ==
    {[resource |-> Resource(h[1], h[2], s[1], s[2], s[3]), personalProject |-> pp] :
        h \in HomeProjects, s \in Sharings,
        pp \in {NullProject} \cup {Project(i, "personal") : i \in ProjectIds}}

----------------------------------------------------------------------------
(* State machine *)

AuthIdle ==
    /\ nodeType = NullNodeType /\ credStore = {} /\ op = "none"
    /\ nodeVersion = 0 /\ credential = NoCredential /\ ret = <<>>
RegexIdle ==
    /\ lastIndex = 0 /\ packageName = 0 /\ nameMatch = FALSE /\ entryLastIndex = 0
    /\ firstResult = [n \in DOMAIN PackageNames |-> "untested"]
BadgeIdle ==
    /\ props = [resource |-> Resource(FALSE, NullProject, FALSE, FALSE, <<>>),
                personalProject |-> NullProject]
    /\ badge = "dirty"

CallGetNodeAuthFields ==
    \E nv \in 0..MaxVersion :
        /\ op = "none"
        /\ op' = "getNodeAuthFields"
        /\ nodeVersion' = nv
        /\ credential' = NoCredential
        /\ ret' = getNodeAuthFields(nodeType, nv)
        /\ UNCHANGED <<nodeType, credStore, regexVars, badgeVars>>

CallGetMainAuthField ==
    /\ op = "none"
    /\ op' = "getMainAuthField"
    /\ nodeVersion' = 0
    /\ credential' = NoCredential
    /\ ret' = getMainAuthField(nodeType)
    /\ UNCHANGED <<nodeType, credStore, regexVars, badgeVars>>

CallIsRequiredCredential ==
    \E cred \in CredPool :
        /\ op = "none"
        /\ op' = "isRequiredCredential"
        /\ nodeVersion' = 0
        /\ credential' = cred
        /\ ret' = isRequiredCredential(nodeType, cred)
        /\ UNCHANGED <<nodeType, credStore, regexVars, badgeVars>>

CallGetNodeAuthOptions ==
    \E nv \in 0..MaxVersion :
        /\ op = "none"
        /\ op' = "getNodeAuthOptions"
        /\ nodeVersion' = nv
        /\ credential' = NoCredential
        /\ ret' = getNodeAuthOptions(nodeType, nv, credStore)
        /\ UNCHANGED <<nodeType, credStore, regexVars, badgeVars>>

\* the caller takes the result; the helpers keep no state between calls
Return ==
    /\ op # "none"
    /\ op' = "none"
    /\ nodeVersion' = 0
    /\ credential' = NoCredential
    /\ ret' = <<>>
    /\ UNCHANGED <<nodeType, credStore, regexVars, badgeVars>>

CallIsCommunityPackageName ==
    \E n \in DOMAIN PackageNames :
        LET r == isCommunityPackageName(PackageNames[n], lastIndex)
        IN /\ packageName' = n
           /\ nameMatch' = r.nameMatch
           /\ lastIndex' = r.lastIndex
           /\ entryLastIndex' = lastIndex
           /\ firstResult' = IF firstResult[n] = "untested"
                             THEN [firstResult EXCEPT ![n] = IF r.nameMatch THEN "true" ELSE "false"]
                             ELSE firstResult
           /\ UNCHANGED <<authVars, badgeVars>>

\* the parent passes new props: the computed is invalidated
SetProps ==
    \E p \in BadgeProps :
        /\ props' = p
        /\ badge' = "dirty"
        /\ UNCHANGED <<authVars, regexVars>>

\* the template reads projectState: the computed is evaluated
Render ==
    /\ badge' = projectState(props.resource, props.personalProject)
    /\ UNCHANGED <<props, authVars, regexVars>>

AuthInit ==
    /\ nodeType \in NodeTypes /\ credStore = {} /\ op = "none"
    /\ nodeVersion = 0 /\ credential = NoCredential /\ ret = <<>>
    /\ RegexIdle /\ BadgeIdle
OptionsInit ==
    /\ nodeType \in OptionNodeTypes
    /\ credStore \in SUBSET {OptionCreds[c].name : c \in DOMAIN OptionCreds}
    /\ op = "none" /\ nodeVersion = 0 /\ credential = NoCredential /\ ret = <<>>
    /\ RegexIdle /\ BadgeIdle
RegexInit == AuthIdle /\ RegexIdle /\ BadgeIdle
BadgeInit ==
    /\ AuthIdle /\ RegexIdle
    /\ props \in BadgeProps /\ badge = "dirty"

AuthNext ==
    \/ CallGetNodeAuthFields
    \/ CallGetMainAuthField
    \/ CallIsRequiredCredential
    \/ CallGetNodeAuthOptions
    \/ Return
RegexNext == CallIsCommunityPackageName
BadgeNext == SetProps \/ Render

Init == AuthInit
Next == AuthNext
Spec == Init /\ [][Next]_vars
SpecOptions == OptionsInit /\ [][AuthNext]_vars
SpecRegex == RegexInit /\ [][RegexNext]_vars
SpecBadge == BadgeInit /\ [][BadgeNext]_vars

----------------------------------------------------------------------------
(* Properties *)

\* the keys of a credential's displayOptions.show, as a set
keySet(cred) == {cred.show[i].key : i \in DOMAIN cred.show}

\* C1: isRequiredCredential returns true exactly when the credential has no
\* displayOptions.show, or when the key set of its displayOptions.show is
\* exactly the name of the node type's main authentication field; it returns
\* false in every other case, also when there is no main authentication field.
C1_RequiredIffOnlyMainAuthDependency ==
    op = "isRequiredCredential" =>
        LET main == getMainAuthField(nodeType)
        IN ret = (\/ ~credential.hasShow
                  \/ /\ main # 0
                     /\ keySet(credential) = {nodeType.properties[main].name})

\* the properties named 'authentication' that offer no option with value 'none'
isAuthenticationProperty(prop) ==
    /\ prop.name = MAIN_AUTH_FIELD_NAME
    /\ \/ ~prop.hasOptions
       \/ \A o \in DOMAIN prop.options :
             prop.options[o].kind = "absent" \/ prop.options[o].value # "none"

\* C2: getMainAuthField returns null for a null node type; when the node
\* type's auth fields contain a field named 'authentication' without a 'none'
\* option, the first such field is the result, whatever alternative field
\* exists; and a non-null result is always one of getNodeAuthFields(nodeType).
C2_MainAuthField ==
    op = "getMainAuthField" =>
        LET fields == getNodeAuthFields(nodeType, 0)
            auth == {i \in DOMAIN fields :
                       isAuthenticationProperty(nodeType.properties[fields[i]])}
        IN /\ nodeType.null => ret = 0
           /\ auth # {} => /\ ret # 0
                           /\ \E i \in auth : /\ fields[i] = ret
                                             /\ \A j \in auth : i <= j
           /\ ret # 0 => \E i \in DOMAIN fields : fields[i] = ret

\* C2 witness: the authentication field was returned although an earlier auth
\* field qualifies as the alternative main auth field
C2_Witness ==
    /\ op = "getMainAuthField"
    /\ ret # 0
    /\ isAuthenticationProperty(nodeType.properties[ret])
    /\ LET fields == getNodeAuthFields(nodeType, 0)
           alternative == findAlternativeAuthField(nodeType, fields)
       IN alternative # 0 /\ alternative # ret /\ fields[1] = alternative

\* the property names some credential of the node type depends on
dependencyNames(nt) ==
    UNION {keySet(nt.credentials[c]) :
             c \in {d \in DOMAIN nt.credentials : nt.credentials[d].hasShow}}

\* C4: getNodeAuthFields returns all and only the properties whose name is a key
\* of some credential's displayOptions.show and that match the node version,
\* each of them once; the list is empty for a null node type and for a node
\* type without credentials.
C4_AuthFields ==
    op = "getNodeAuthFields" =>
        /\ Range(ret) =
              {k \in DOMAIN nodeType.properties :
                 /\ nodeType.properties[k].name \in dependencyNames(nodeType)
                 /\ isNodeFieldMatchingNodeVersion(nodeType.properties[k], nodeVersion)}
        /\ \A i, j \in DOMAIN ret : ret[i] = ret[j] => i = j
        /\ (nodeType.null \/ ~nodeType.hasCredentials \/ nodeType.credentials = <<>>)
              => ret = <<>>

\* C4 witness: two credentials depend on the same returned field, and a
\* property with a dependency's name is left out for its version
C4_Witness ==
    /\ op = "getNodeAuthFields"
    /\ ret # <<>>
    /\ \E c, d \in DOMAIN nodeType.credentials :
          /\ c # d
          /\ nodeType.credentials[c].hasShow /\ nodeType.credentials[d].hasShow
          /\ nodeType.properties[ret[1]].name
                \in keySet(nodeType.credentials[c]) \cap keySet(nodeType.credentials[d])
    /\ \E k \in DOMAIN nodeType.properties :
          /\ nodeType.properties[k].name \in dependencyNames(nodeType)
          /\ ~includes(ret, k)

\* C3: in the list getNodeAuthOptions returns, no option without the
\* recommended suffix in its name precedes one with it, and the list holds
\* exactly the options collected from the auth fields, each as often as it was
\* collected.
C3_RecommendedFirst ==
    op = "getNodeAuthOptions" =>
        /\ \A i, j \in DOMAIN ret :
              (i < j /\ includesSuffix(ret[j].name)) => includesSuffix(ret[i].name)
        /\ SeqToBag(ret) = SeqToBag(collectAuthOptions(nodeType, nodeVersion, credStore))

\* C3 witness: two recommended options were collected after an option that is
\* not recommended, with another such option between them
C3_Witness ==
    /\ op = "getNodeAuthOptions"
    /\ LET collected == collectAuthOptions(nodeType, nodeVersion, credStore)
       IN /\ Len(collected) >= 4
          /\ ~includesSuffix(collected[1].name)
          /\ includesSuffix(collected[2].name)
          /\ ~includesSuffix(collected[3].name)
          /\ includesSuffix(collected[4].name)
          /\ ret # collected

\* C5: the result of isCommunityPackageName for a name is the result its first
\* call on that name gave, whatever names were tested in between.
C5_SameResultForSameName ==
    packageName # 0 =>
        firstResult[packageName] = (IF nameMatch THEN "true" ELSE "false")

\* C5 witness: a call that found the lastIndex an earlier match left behind
\* matched all the same, after some other name had been rejected
C5_Witness ==
    /\ packageName # 0
    /\ entryLastIndex > 0
    /\ nameMatch
    /\ \E n \in DOMAIN PackageNames : n # packageName /\ firstResult[n] = "false"

\* C6: projectState is never unknown: it is owned/shared-owned exactly when the
\* resource has no home project or the home project's id is the personal
\* project's, team/shared-team exactly when otherwise the home project's type
\* is team, personal/shared-personal otherwise; and it is the shared variant
\* exactly when sharedWithProjects is non-empty.
C6_ProjectState ==
    badge # "dirty" =>
        LET r == props.resource
            owned == \/ ~r.hasHomeProject
                     \/ ~props.personalProject.null /\ r.homeProject.id = props.personalProject.id
            team == ~owned /\ r.homeProject.type = "team"
            shared == /\ r.hasSharedWithProjects /\ r.sharedWithProjectsDefined
                      /\ r.sharedWithProjects # <<>>
        IN /\ badge # "unknown"
           /\ badge \in {"owned", "shared-owned"} <=> owned
           /\ badge \in {"team", "shared-team"} <=> team
           /\ badge \in {"personal", "shared-personal"} <=> (~owned /\ ~team)
           /\ badge \in {"shared-owned", "shared-team", "shared-personal"} <=> shared

\* C6 witness: a shared resource of another user's personal project
C6_Witness ==
    /\ badge = "shared-personal"
    /\ ~props.personalProject.null
    /\ props.resource.homeProject.id # props.personalProject.id

====
